---- MODULE Spec2Model ----
(***************************************************************************)
(* A model of the poker adapter of muzero-general:                         *)
(*   games/poker_socket.py  PokerSocket (line protocol parser, transport)  *)
(*   games/poker_game.py    PokerGame   (observation encoder, action       *)
(*                                       decoder, reset/step/close)        *)
(* Strings are sequences of one-character strings, so that strip, split,   *)
(* startswith, int() and float() are computed as the code computes them.   *)
(* Real numbers are exact fractions [n |-> numerator, d |-> denominator].  *)
(***************************************************************************)
EXTENDS Integers, Sequences, FiniteSets, TLC

VARIABLES
    \* --- codec harness (pure functions applied to drawn inputs) ---
    phase,          \* "idle" | "line" | "parsed" | "encoded" | "act" | "decoded"
                    \* | "legal_in" | "legal_out" | "stream" | "card" | "indexed"
                    \* | "shown"
    socketfile,     \* PokerSocket.socketfile: "None" | "open" | "closed"
    line,           \* the raw line readline() returned
    parsed,         \* receive_message's result: <<>> (None) or <<message>>
    encoded,        \* _encode_observation's outcome on the parsed message
    actA, actB,     \* two action indices drawn for _action_to_poker_code
    codeA, codeB,   \* their protocol strings
    \* --- adapter (PokerGame and its PokerSocket) ---
    socket_connection,  \* "None" | "unconnected" | "open" | "closed"
    is_connected_flag,  \* PokerSocket.is_connected_flag
    engine_process,     \* "None" | "running" | "exited" | "terminated"
    game_over,          \* PokerGame.game_over
    current_observation,\* <<>> (None) or <<vector>>
    ret,                \* outcome of the last call on the adapter
    nWrites,            \* action lines written to the engine so far
    nReads,             \* readline() calls made on the connection so far
    lastWritten,        \* the last text written to the engine
    terminalSeen,       \* a step has returned done=true since the last reset
    resetSucceeded,     \* some reset() has returned normally
    liveEngines,        \* engine processes this adapter launched that are alive
    nCalls,             \* calls made on the adapter so far
    awaitingReply,      \* an action line was written and no read attempted since
    lastReceived,       \* the message the last returning step or reset received
    last_message,       \* PokerGame.last_message: <<>> (unset) or <<message>>
    legal,              \* the list legal_actions() returned
    previous,           \* the result of the receive_message call before the last
    cardA, cardB,       \* two card strings drawn for _card_to_index
    idxA, idxB,         \* their indices
    strA                \* action_to_string of actA

vars == <<phase, socketfile, line, parsed, encoded, actA, actB, codeA, codeB,
          socket_connection, is_connected_flag, engine_process, game_over,
          current_observation, ret, nWrites, nReads, lastWritten,
          terminalSeen, resetSucceeded, liveEngines, nCalls, awaitingReply,
          lastReceived,
          last_message, legal, previous, cardA, cardB, idxA, idxB, strA>>

codecVars == <<phase, line, parsed, encoded>>
actionVars == <<actA, actB, codeA, codeB>>
adapterVars == <<socket_connection, is_connected_flag, engine_process,
                 game_over, current_observation, ret, nWrites, nReads,
                 lastWritten, terminalSeen, resetSucceeded, liveEngines, nCalls,
                 awaitingReply, lastReceived>>
legalVars == <<last_message, legal>>
cardVars == <<cardA, cardB, idxA, idxB>>

----------------------------------------------------------------------------
(* Bounds of the model *)

\* clauses per drawn protocol line
MaxClauses == 2
\* action indices are drawn this far below 0 and above the last index
ActionMargin == 3
\* calls made on one adapter
MaxCalls == 3
\* lines read one after the other from one connection
MaxReads == 3
\* characters in a card string that is not one of the 52 tokens
MaxCardLen == 2
\* tokens in the action history of a message given to legal_actions
MaxHistory == 3

----------------------------------------------------------------------------
(* Exact fractions *)

Rat(n, d) == [n |-> n, d |-> d]
RatLe(a, b) == a.n * b.d <= b.n * a.d
RatEq(a, b) == a.n * b.d = b.n * a.d
RatMin(a, b) == IF RatLe(a, b) THEN a ELSE b
Zero == Rat(0, 1)
One == Rat(1, 1)
MinusOne == Rat(-1, 1)

----------------------------------------------------------------------------
(* Python string primitives *)

Digits == <<"0", "1", "2", "3", "4", "5", "6", "7", "8", "9">>
IsDigit(c) == \E i \in 1..10 : Digits[i] = c
DigitVal(c) == (CHOOSE i \in 1..10 : Digits[i] = c) - 1

\* str.strip() with no argument removes leading and trailing whitespace
IsSpace(c) == c \in {" ", "\n", "\t", "\r"}

RECURSIVE LStrip(_)
LStrip(s) == IF s # <<>> /\ IsSpace(Head(s)) THEN LStrip(Tail(s)) ELSE s

RECURSIVE RStrip(_)
RStrip(s) ==
    IF s # <<>> /\ IsSpace(s[Len(s)]) THEN RStrip(SubSeq(s, 1, Len(s) - 1)) ELSE s

Strip(s) == RStrip(LStrip(s))

\* str.split(sep) with an explicit one-character separator: empty pieces are kept
RECURSIVE SplitFrom(_, _, _, _)
SplitFrom(s, sep, i, cur) ==
    IF i > Len(s) THEN <<cur>>
    ELSE IF s[i] = sep THEN <<cur>> \o SplitFrom(s, sep, i + 1, <<>>)
    ELSE SplitFrom(s, sep, i + 1, Append(cur, s[i]))

Split(s, sep) == SplitFrom(s, sep, 1, <<>>)

StartsWith(s, c) == s # <<>> /\ s[1] = c

\* s[1:]
Rest(s) == IF s = <<>> THEN <<>> ELSE Tail(s)

AllDigits(s) == \A i \in 1..Len(s) : IsDigit(s[i])

RECURSIVE DigitsValue(_)
DigitsValue(s) ==
    IF s = <<>> THEN 0 ELSE 10 * DigitsValue(SubSeq(s, 1, Len(s) - 1)) + DigitVal(s[Len(s)])

RECURSIVE Pow10(_)
Pow10(k) == IF k = 0 THEN 1 ELSE 10 * Pow10(k - 1)

\* int(s): an optional sign and at least one decimal digit; anything else raises
\* ValueError.  <<>> stands for the raised error, <<v>> for the value.
ParseInt(s) ==
    LET body == IF StartsWith(s, "-") \/ StartsWith(s, "+") THEN Tail(s) ELSE s
        sign == IF StartsWith(s, "-") THEN -1 ELSE 1
    IN  IF body # <<>> /\ AllDigits(body) THEN <<sign * DigitsValue(body)>> ELSE <<>>

\* float(s): an optional sign, digits with at most one point and at least one
\* digit; anything else over the model's alphabet raises ValueError.
ParseFloat(s) ==
    LET body == IF StartsWith(s, "-") \/ StartsWith(s, "+") THEN Tail(s) ELSE s
        sign == IF StartsWith(s, "-") THEN -1 ELSE 1
        parts == Split(body, ".")
        ip == parts[1]
        fp == IF Len(parts) = 2 THEN parts[2] ELSE <<>>
    IN  IF /\ Len(parts) <= 2
           /\ AllDigits(ip) /\ AllDigits(fp)
           /\ Len(ip) + Len(fp) > 0
        THEN <<Rat(sign * (DigitsValue(ip) * Pow10(Len(fp)) + DigitsValue(fp)),
                   Pow10(Len(fp)))>>
        ELSE <<>>

\* str(n) for an integer
RECURSIVE NatToStr(_)
NatToStr(n) ==
    IF n < 10 THEN <<Digits[n + 1]>> ELSE NatToStr(n \div 10) \o <<Digits[(n % 10) + 1]>>

IntToStr(n) == IF n < 0 THEN <<"-">> \o NatToStr(-n) ELSE NatToStr(n)

\* [c for c in cards if c]
RECURSIVE NonEmpty(_)
NonEmpty(ss) ==
    IF ss = <<>> THEN <<>>
    ELSE IF Head(ss) = <<>> THEN NonEmpty(Tail(ss))
    ELSE <<Head(ss)>> \o NonEmpty(Tail(ss))

\* " ".join(clauses)
RECURSIVE Join(_)
Join(cs) ==
    IF cs = <<>> THEN <<>>
    ELSE IF Len(cs) = 1 THEN cs[1]
    ELSE cs[1] \o <<" ">> \o Join(Tail(cs))

----------------------------------------------------------------------------
(* PokerSocket.receive_message *)

\* None is <<>>, a present value v is <<v>>
None == <<>>
Some(v) == <<v>>

\* mutant: the dict is created once and kept between calls, so a call starts
\* from the message of the call before
DefaultMessageCarried ==
    IF parsed # <<>> THEN parsed[1]
    ELSE [time_remaining |-> None,
          player_index   |-> None,
          hole_cards     |-> <<>>,
          board_cards    |-> <<>>,
          action_history |-> <<>>,
          bankroll_delta |-> None,
          bounty_hits    |-> None,
          game_over      |-> FALSE,
          opponent_hand  |-> <<>>]

\* the message dict receive_message starts every call from
DefaultMessage ==
    [time_remaining |-> None,
     player_index   |-> None,
     hole_cards     |-> <<>>,
     board_cards    |-> <<>>,
     action_history |-> <<>>,
     bankroll_delta |-> None,
     bounty_hits    |-> None,
     game_over      |-> FALSE,
     opponent_hand  |-> <<>>]

\* clause[1:].split(',') if len(clause) > 1 else [], then [c for c in cards if c]
CardList(clause) ==
    NonEmpty(IF Len(clause) > 1 THEN Split(Rest(clause), ",") ELSE <<>>)

\* One iteration of the loop `for clause in clauses` (lines 129-153): the
\* message after the clause, or None when the clause raises (float() or int()
\* on a payload that does not parse).
ParseClause(message, clause) ==
    IF clause = <<>> THEN Some(message)
    ELSE IF StartsWith(clause, "T") THEN
        IF ParseFloat(Rest(clause)) = None THEN None
        ELSE Some([message EXCEPT !.time_remaining = ParseFloat(Rest(clause))])
    ELSE IF StartsWith(clause, "P") THEN
        IF ParseInt(Rest(clause)) = None THEN None
        ELSE Some([message EXCEPT !.player_index = ParseInt(Rest(clause))])
    ELSE IF StartsWith(clause, "H") THEN
        Some([message EXCEPT !.hole_cards = CardList(clause)])
    ELSE IF StartsWith(clause, "B") THEN
        Some([message EXCEPT !.board_cards = CardList(clause)])
    ELSE IF StartsWith(clause, "O") THEN
        Some([message EXCEPT !.opponent_hand = CardList(clause)])
    ELSE IF StartsWith(clause, "D") THEN
        IF ParseInt(Rest(clause)) = None THEN None
        ELSE Some([message EXCEPT !.bankroll_delta = ParseInt(Rest(clause))])
    ELSE IF StartsWith(clause, "Y") THEN
        Some([message EXCEPT !.bounty_hits = Some(Rest(clause))])
    ELSE IF clause = <<"Q">> THEN
        Some([message EXCEPT !.game_over = TRUE])
    ELSE IF clause \in {<<"F">>, <<"C">>, <<"K">>} \/ StartsWith(clause, "R") THEN
        Some([message EXCEPT !.action_history = Append(@, clause)])
    ELSE Some(message)

\* mutant: the loop runs over the clauses from the last to the first
RECURSIVE ParseClausesReversed(_, _)
ParseClausesReversed(message, clauses) ==
    IF clauses = <<>> THEN Some(message)
    ELSE LET m == ParseClause(message, clauses[Len(clauses)])
         IN  IF m = None THEN None
             ELSE ParseClausesReversed(m[1], SubSeq(clauses, 1, Len(clauses) - 1))

\* the loop over the clauses; an exception anywhere leaves the loop
RECURSIVE ParseClauses(_, _)
ParseClauses(message, clauses) ==
    IF clauses = <<>> THEN Some(message)
    ELSE LET m == ParseClause(message, Head(clauses))
         IN  IF m = None THEN None ELSE ParseClauses(m[1], Tail(clauses))

\* mutant: the `if not line: return None` test of line 113 is missing
ParseLineNoEmptyCheck(raw) ==
    ParseClauses(DefaultMessage, Split(Strip(raw), " "))

\* what the try block makes of the line readline() returned (lines 112-155);
\* the except clause (157-159) turns every raised error into None
ParseLine(raw) ==
    IF Strip(raw) = <<>> THEN None
    ELSE ParseClauses(DefaultMessage, Split(Strip(raw), " "))

\* receive_message(): sf is self.socketfile; rd is what readline() does,
\* [ok |-> TRUE, text |-> raw line] or [ok |-> FALSE] when it raises (timeout,
\* reset connection).  readline() on a closed file raises ValueError.
receive_message(sf, rd) ==
    IF sf = "None" THEN None
    ELSE IF sf = "closed" \/ ~rd.ok THEN None
    ELSE ParseLine(rd.text)

\* whether receive_message calls readline() on the connection at all
ReadAttempted(sf) == sf = "open"

----------------------------------------------------------------------------
(* PokerGame: card index, observation encoder *)

\* length of the observation vector (np.zeros(250))
ObsLen == 250
\* the game clock ceiling the time is divided by
ClockCeiling == 600
\* the starting stack the bankroll delta and raise sizes are divided by
StartingStack == 400
\* the pot normaliser
PotCeiling == 800
\* the raise-count normaliser
RaiseCeiling == 4
\* action_history[-8:]
HistorySlots == 8

Ranks == <<"2", "3", "4", "5", "6", "7", "8", "9", "T", "J", "Q", "K", "A">>
Suits == <<"s", "h", "d", "c">>

\* seq.index(c): the 0-based position of c, or -1 for the ValueError
IndexIn(seq, c) ==
    IF \E i \in 1..Len(seq) : seq[i] = c
    THEN (CHOOSE i \in 1..Len(seq) : seq[i] = c) - 1
    ELSE -1

\* mutant: the rank index is multiplied by 3 instead of 4
card_to_index_RankTimesThree(card_str) ==
    IF Len(card_str) # 2 THEN -1
    ELSE IF IndexIn(Ranks, card_str[1]) < 0 \/ IndexIn(Suits, card_str[2]) < 0 THEN -1
    ELSE IndexIn(Ranks, card_str[1]) * 3 + IndexIn(Suits, card_str[2])

card_to_index(card_str) ==
    IF Len(card_str) # 2 THEN -1
    ELSE IF IndexIn(Ranks, card_str[1]) < 0 \/ IndexIn(Suits, card_str[2]) < 0 THEN -1
    ELSE IndexIn(Ranks, card_str[1]) * 4 + IndexIn(Suits, card_str[2])

\* PokerGame._calculate_hand_strength is called by _encode_observation and by
\* the tests but is not defined in the source; this is the heuristic the
\* specification describes: in [0,1], higher for higher ranks and for pairs,
\* with a bonus for suited hole cards.
calculate_hand_strength(hole_cards, board_cards) ==
    LET rk(c) == IF c # <<>> /\ IndexIn(Ranks, c[1]) >= 0 THEN IndexIn(Ranks, c[1]) ELSE 0
        two == Len(hole_cards) >= 2
        r1 == IF hole_cards # <<>> THEN rk(hole_cards[1]) ELSE 0
        r2 == IF two THEN rk(hole_cards[2]) ELSE 0
        pair == IF two /\ r1 = r2 THEN 72 ELSE 0
        suited == IF two /\ Len(hole_cards[1]) >= 2 /\ Len(hole_cards[2]) >= 2
                     /\ hole_cards[1][2] = hole_cards[2][2] THEN 24 ELSE 0
    IN  Rat(5 * (r1 + r2) + pair + suited, 240)

\* seq[:k]
Prefix(seq, k) == SubSeq(seq, 1, IF Len(seq) < k THEN Len(seq) ELSE k)
\* seq[-k:]
Suffix(seq, k) == SubSeq(seq, IF Len(seq) > k THEN Len(seq) - k + 1 ELSE 1, Len(seq))

\* the 0..51 indices of the valid card tokens of a list
CardIndices(cards) ==
    {card_to_index(cards[k]) : k \in 1..Len(cards)} \ {-1}

\* the loop of lines 96-101: <<pot_size, raises_this_street>>, or None when
\* int(action[1:]) raises on a history token
RECURSIVE PotScan(_, _, _)
PotScan(history, pot, raises) ==
    IF history = <<>> THEN Some(<<pot, raises>>)
    ELSE LET action == Head(history)
         IN  IF StartsWith(action, "R") THEN
                 IF ParseInt(Rest(action)) = None THEN None
                 ELSE PotScan(Tail(history), pot + ParseInt(Rest(action))[1], raises + 1)
             ELSE IF action \in {<<"C">>, <<"K">>} THEN
                 PotScan(Tail(history), pot + 2, raises)
             ELSE PotScan(Tail(history), pot, raises)

\* the error _encode_observation raises on a message dict, "" for none
\* (in the order the statements run)
EncodeError(m) ==
    IF /\ m.hole_cards # <<>> /\ m.board_cards # <<>>
       /\ \E k \in 1..Len(m.hole_cards) : Len(m.hole_cards[k]) < 2
    THEN "IndexError"                                       \* c[1], line 90
    ELSE IF PotScan(m.action_history, 0, 0) = None
    THEN "ValueError"                                       \* int(action[1:]), line 98
    ELSE IF m.bounty_hits = None
    THEN "TypeError"                                        \* len(None), line 127
    ELSE ""

\* the value the statements of lines 53-129 leave in obs[i]
ObsValue(m, i) ==
    LET hole == m.hole_cards
        board == m.board_cards
        scan == PotScan(m.action_history, 0, 0)[1]
        recent == Suffix(m.action_history, HistorySlots)
        slot == (i - 150) \div 4
        off == (i - 150) % 4
    IN
    IF i = 0 THEN
        IF m.time_remaining # None /\ m.time_remaining[1].n # 0
        THEN RatMin(Rat(m.time_remaining[1].n, m.time_remaining[1].d * ClockCeiling), One)
        ELSE Zero
    ELSE IF i = 1 THEN
        IF m.player_index # None THEN Rat(m.player_index[1], 1) ELSE Zero
    ELSE IF i = 2 THEN IF Len(board) = 0 THEN One ELSE Zero
    ELSE IF i = 3 THEN IF Len(board) = 3 THEN One ELSE Zero
    ELSE IF i = 4 THEN IF Len(board) = 4 THEN One ELSE Zero
    ELSE IF i = 5 THEN IF Len(board) >= 5 THEN One ELSE Zero
    ELSE IF i >= 10 /\ i <= 61 THEN
        IF (i - 10) \in CardIndices(Prefix(hole, 2)) THEN One ELSE Zero
    ELSE IF i >= 62 /\ i <= 113 THEN
        IF (i - 62) \in CardIndices(Prefix(board, 5)) THEN One ELSE Zero
    ELSE IF i = 114 THEN
        IF hole # <<>> /\ board # <<>> THEN calculate_hand_strength(hole, board) ELSE Zero
    ELSE IF i = 115 THEN
        IF hole # <<>> /\ board # <<>>
        THEN Rat(Cardinality({hole[k][1] : k \in 1..Len(hole)}), 1) ELSE Zero
    ELSE IF i = 116 THEN
        IF hole # <<>> /\ board # <<>>
        THEN Rat(Cardinality({hole[k][2] : k \in 1..Len(hole)}), 1) ELSE Zero
    ELSE IF i = 124 THEN RatMin(Rat(scan[1], PotCeiling), One)
    ELSE IF i = 125 THEN RatMin(Rat(scan[2], RaiseCeiling), One)
    ELSE IF i = 140 THEN IF m.player_index = Some(0) THEN One ELSE Zero
    ELSE IF i >= 150 /\ i <= 181 /\ slot < Len(recent) THEN
        LET action == recent[slot + 1]
        IN  IF action = <<"F">> THEN (IF off = 0 THEN One ELSE Zero)
            ELSE IF action = <<"C">> THEN (IF off = 1 THEN One ELSE Zero)
            ELSE IF action = <<"K">> THEN (IF off = 2 THEN One ELSE Zero)
            ELSE IF StartsWith(action, "R") /\ off = 3
                 THEN RatMin(Rat(ParseInt(Rest(action))[1], StartingStack), One)
            ELSE Zero
    ELSE IF i = 182 THEN
        IF m.bankroll_delta # None THEN Rat(m.bankroll_delta[1], StartingStack) ELSE Zero
    ELSE IF i = 190 THEN
        IF Len(m.bounty_hits[1]) >= 2 /\ m.bounty_hits[1][1] = "1" THEN One ELSE Zero
    ELSE IF i = 191 THEN
        IF Len(m.bounty_hits[1]) >= 2 /\ m.bounty_hits[1][2] = "1" THEN One ELSE Zero
    ELSE Zero

ZeroVector == [i \in 0..(ObsLen - 1) |-> Zero]

\* _encode_observation(message): message is None or Some(dict).  The outcome is
\* [raised |-> FALSE, error |-> "", obs |-> vector] or
\* [raised |-> TRUE, error |-> exception, obs |-> None].
encode_observation(message) ==
    IF message = None THEN [raised |-> FALSE, error |-> "", obs |-> Some(ZeroVector)]
    ELSE IF EncodeError(message[1]) # ""
    THEN [raised |-> TRUE, error |-> EncodeError(message[1]), obs |-> None]
    ELSE [raised |-> FALSE, error |-> "",
          obs |-> Some([i \in 0..(ObsLen - 1) |-> ObsValue(message[1], i)])]

----------------------------------------------------------------------------
(* PokerGame: action decoder *)

action_space_size == 103
min_raise == 2
max_raise == 400
strategic_raises ==
    <<2, 3, 4, 6, 8, 12, 16, 20, 25, 30, 40, 50, 75, 100, 150, 200, 300, 400>>

\* f'R{amount}'
RaiseCode(amount) == <<"R">> \o IntToStr(amount)

\* mutant: the linear block ends one index early (action <= 101)
action_to_poker_code_OffByOne(action) ==
    IF action = 0 THEN <<"F">>
    ELSE IF action = 1 THEN <<"C">>
    ELSE IF action = 2 THEN <<"K">>
    ELSE IF 3 <= action /\ action <= 20 THEN RaiseCode(strategic_raises[action - 3 + 1])
    ELSE IF 21 <= action /\ action <= 101 THEN
        RaiseCode(min_raise + (((action - 21) * (max_raise - min_raise)) \div 81))
    ELSE <<"K">>

action_to_poker_code(action) ==
    IF action = 0 THEN <<"F">>
    ELSE IF action = 1 THEN <<"C">>
    ELSE IF action = 2 THEN <<"K">>
    ELSE IF 3 <= action /\ action <= 20 THEN
        IF action - 3 < Len(strategic_raises)
        THEN RaiseCode(strategic_raises[action - 3 + 1])
        ELSE RaiseCode(min_raise)
    ELSE IF 21 <= action /\ action <= 102 THEN
        RaiseCode(min_raise + (((action - 21) * (max_raise - min_raise)) \div 81))
    ELSE <<"K">>

\* action_to_string(action_number): the readable name of an action index
action_to_string(action_number) ==
    IF action_number = 0 THEN <<"F", "o", "l", "d">>
    ELSE IF action_number = 1 THEN <<"C", "a", "l", "l">>
    ELSE IF action_number = 2 THEN <<"C", "h", "e", "c", "k">>
    ELSE IF 3 <= action_number /\ action_number <= 102 THEN
        <<"R", "a", "i", "s", "e", " ">>
            \o IntToStr(min_raise + (((action_number - 3) * (max_raise - min_raise)) \div 99))
    ELSE <<"U", "n", "k", "n", "o", "w", "n", " ", "a", "c", "t", "i", "o", "n", " ">>
            \o IntToStr(action_number)

----------------------------------------------------------------------------
(* PokerGame.legal_actions *)

\* list(range(lo, hi))
Range(lo, hi) == [k \in 1..(hi - lo) |-> lo + k - 1]

\* mutant: check is offered whether or not a raise is faced
legal_actions_CheckAlways(lm) ==
    IF lm = None THEN Range(0, action_space_size)
    ELSE LET history == lm[1].action_history
             facing == history # <<>> /\ StartsWith(history[Len(history)], "R")
         IN  (IF ~lm[1].game_over THEN <<0>> ELSE <<>>)
             \o (IF facing THEN <<1, 2>> ELSE <<2>>)
             \o Range(3, action_space_size)

\* mutant: fold is offered although the hand is over
legal_actions_FoldAlways(lm) ==
    IF lm = None THEN Range(0, action_space_size)
    ELSE LET history == lm[1].action_history
             facing == history # <<>> /\ StartsWith(history[Len(history)], "R")
         IN  <<0>> \o (IF facing THEN <<1>> ELSE <<2>>) \o Range(3, action_space_size)

\* mutant: the answer without a message stops one index early
legal_actions_NoLastIndex(lm) ==
    IF lm = None THEN Range(0, action_space_size - 1)
    ELSE LET history == lm[1].action_history
             facing == history # <<>> /\ StartsWith(history[Len(history)], "R")
         IN  (IF ~lm[1].game_over THEN <<0>> ELSE <<>>)
             \o (IF facing THEN <<1>> ELSE <<2>>)
             \o Range(3, action_space_size)

\* legal_actions(): lm is self.last_message, None when the attribute is
\* missing or falsy
legal_actions(lm) ==
    IF lm = None THEN Range(0, action_space_size)
    ELSE LET history == lm[1].action_history
             last_action == IF history # <<>> THEN Some(history[Len(history)]) ELSE None
             facing == last_action # None /\ last_action[1] # <<>>
                         /\ StartsWith(last_action[1], "R")
         IN  (IF ~lm[1].game_over THEN <<0>> ELSE <<>>)
             \o (IF facing THEN <<1>> ELSE <<2>>)
             \o Range(3, action_space_size)

----------------------------------------------------------------------------
(* PokerSocket: transport *)

\* is_connected()
is_connected(flag, conn) == flag /\ conn # "None"

\* mutant: the newline terminator is not appended
send_action_NoNewline(sf, action_code, wr) ==
    IF sf = "None" THEN [ok |-> FALSE, attempted |-> FALSE, text |-> <<>>]
    ELSE IF sf = "closed" THEN [ok |-> FALSE, attempted |-> FALSE, text |-> <<>>]
    ELSE [ok |-> wr, attempted |-> TRUE, text |-> action_code]

\* send_action(action_code): sf is self.socketfile, wr says whether write() and
\* flush() on an open connection succeed.  [ok |-> returned value,
\* attempted |-> write() reached the connection, text |-> what was written]
send_action(sf, action_code, wr) ==
    IF sf = "None" THEN [ok |-> FALSE, attempted |-> FALSE, text |-> <<>>]
    ELSE IF sf = "closed" THEN [ok |-> FALSE, attempted |-> FALSE, text |-> <<>>]
    ELSE [ok |-> wr, attempted |-> TRUE, text |-> action_code \o <<"\n">>]

----------------------------------------------------------------------------
(* PokerGame.step *)

\* what a call on the adapter leaves behind
Outcome(op, kind, error, obs, reward, done, sent, msg, wasIdle) ==
    [op |-> op, kind |-> kind, error |-> error, obs |-> obs, reward |-> reward,
     done |-> done, sent |-> sent, msg |-> msg, wasIdle |-> wasIdle]

NoOutcome == Outcome("init", "return", "", None, Zero, FALSE, FALSE, None, TRUE)

\* The pieces of step return
\* [game_over, current_observation, kind, error, obs, reward, done].

\* mutant: the short circuit repeats the penalty of the failure paths
step_short_circuit_Penalty(cur) ==
    [game_over |-> TRUE, current_observation |-> cur, kind |-> "return", error |-> "",
     obs |-> cur, reward |-> MinusOne, done |-> TRUE]

\* lines 169-170: called again after the game is over
step_short_circuit(cur) ==
    [game_over |-> TRUE, current_observation |-> cur, kind |-> "return", error |-> "",
     obs |-> cur, reward |-> Zero, done |-> TRUE]

\* mutant: a communication failure is raised as an error
step_comm_failure_Raises(cur) ==
    [game_over |-> TRUE, current_observation |-> cur, kind |-> "raise",
     error |-> "ConnectionError", obs |-> None, reward |-> Zero, done |-> FALSE]

\* mutant: a communication failure leaves game_over as it was
step_comm_failure_NotTerminal(cur) ==
    [game_over |-> FALSE, current_observation |-> cur, kind |-> "return", error |-> "",
     obs |-> cur, reward |-> MinusOne, done |-> TRUE]

\* lines 176-178 and 182-184: the send failed, or no message came back
step_comm_failure(cur) ==
    [game_over |-> TRUE, current_observation |-> cur, kind |-> "return", error |-> "",
     obs |-> cur, reward |-> MinusOne, done |-> TRUE]

\* mutant: the delta is normalised by the pot ceiling instead of the stack
step_reward_PotNormalised(m) ==
    IF m.bankroll_delta # None THEN Rat(m.bankroll_delta[1], PotCeiling) ELSE Zero

\* lines 190-193: the reward of a received message
step_reward(m) ==
    IF m.bankroll_delta # None THEN Rat(m.bankroll_delta[1], StartingStack) ELSE Zero

\* lines 186-195: a message was received
step_update(over, cur, message) ==
    LET enc == encode_observation(message)
    IN  IF enc.raised
        THEN [game_over |-> over, current_observation |-> cur, kind |-> "raise",
              error |-> enc.error, obs |-> None, reward |-> Zero, done |-> FALSE]
        ELSE [game_over |-> message[1].game_over, current_observation |-> enc.obs,
              kind |-> "return", error |-> "", obs |-> enc.obs,
              reward |-> step_reward(message[1]), done |-> message[1].game_over]

\* mutant: the reply is read although the send failed
step_ReadsAfterFailedSend(over, cur, sf, action, wr, rd) ==
    LET snd == send_action(sf, action_to_poker_code(action), wr)
        message == receive_message(sf, rd)
    IN  IF over THEN
            step_short_circuit(cur) @@
            [sent |-> FALSE, wrote |-> FALSE, read |-> FALSE, text |-> <<>>, msg |-> None]
        ELSE IF ~snd.ok \/ message = None THEN
            step_comm_failure(cur) @@
            [sent |-> snd.ok, wrote |-> snd.attempted, read |-> ReadAttempted(sf),
             text |-> snd.text, msg |-> None]
        ELSE step_update(over, cur, message) @@
            [sent |-> TRUE, wrote |-> TRUE, read |-> TRUE, text |-> snd.text,
             msg |-> message]

\* step(action) on the adapter fields (over, cur) and the socket file sf, with
\* the connection's behaviour wr (write succeeds) and rd (what readline does).
\* The result adds what happened on the wire: sent, wrote, read, text, msg.
step(over, cur, sf, action, wr, rd) ==
    LET snd == send_action(sf, action_to_poker_code(action), wr)
        message == receive_message(sf, rd)
        quiet == [sent |-> FALSE, wrote |-> FALSE, read |-> FALSE, text |-> <<>>,
                  msg |-> None]
    IN  IF over THEN step_short_circuit(cur) @@ quiet
        ELSE IF ~snd.ok THEN
            step_comm_failure(cur) @@
            [sent |-> FALSE, wrote |-> snd.attempted, read |-> FALSE, text |-> snd.text,
             msg |-> None]
        ELSE IF message = None THEN
            step_comm_failure(cur) @@
            [sent |-> TRUE, wrote |-> TRUE, read |-> ReadAttempted(sf), text |-> snd.text,
             msg |-> None]
        ELSE step_update(over, cur, message) @@
            [sent |-> TRUE, wrote |-> TRUE, read |-> TRUE, text |-> snd.text,
             msg |-> message]

----------------------------------------------------------------------------
(* Inputs: protocol clauses and lines *)

\* the clauses lines are drawn from; <<>> is the empty clause two adjacent
\* spaces (or a leading or trailing space) make
Clauses ==
    { <<>>,
      <<"T", "6", "0", "0", ".", "0">>,         \* T600.0
      <<"T", "-", "5">>,                        \* T-5
      <<"T", "x">>,                             \* T with a non-numeric payload
      <<"P", "0">>,                             \* P0
      <<"P", "1">>,                             \* P1
      <<"P", "x">>,                             \* P with a non-numeric payload
      <<"H", "2", "s", ",", "3", "h">>,         \* H2s,3h
      <<"H", "2">>,                             \* H2: a one-character card
      <<"B", "9", "h", ",", "T", "d", ",", "J", "c">>,   \* B9h,Td,Jc
      <<"B", "A", "c", "t", "s">>,              \* BActs: the action-list marker
      <<"O", "2", "c", ",", "2", "d">>,         \* O2c,2d
      <<"D", "-", "5", "0">>,                   \* D-50
      <<"D", "8", "0", "0">>,                   \* D800
      <<"D", "x">>,                             \* D with a non-numeric payload
      <<"Y", "1", "0">>,                        \* Y10
      <<"Y", "0", "1">>,                        \* Y01
      <<"Q">>,
      <<"K">>,
      <<"R", "1", "0">>,                        \* R10
      <<"R", "a", "b", "c">>,                   \* Rabc
      <<"F", "O", "R", "M", "A", "T">>,         \* FORMAT: no recognised tag
      <<"X">> }                                 \* no recognised tag

\* tuples of at most n clauses
RECURSIVE ClauseTuples(_)
ClauseTuples(n) ==
    IF n = 0 THEN {<<>>}
    ELSE ClauseTuples(n - 1) \cup
         {Append(t, c) : t \in {u \in ClauseTuples(n - 1) : Len(u) = n - 1}, c \in Clauses}

\* what readline() returns: a line with its newline, or "" at end of file
RawLines == {Join(t) \o <<"\n">> : t \in ClauseTuples(MaxClauses)} \cup {<<>>}

\* what readline() does: return a line, or raise (timeout, reset connection)
ReadRaises == [ok |-> FALSE, text |-> <<>>]
ReadLine(text) == [ok |-> TRUE, text |-> text]
ReadOutcomes == {ReadLine(l) : l \in RawLines} \cup {ReadRaises}

----------------------------------------------------------------------------
(* Codec harness: receive_message and _encode_observation on drawn lines *)

AdapterInit ==
    /\ socket_connection = "None"
    /\ is_connected_flag = FALSE
    /\ engine_process = "None"
    /\ game_over = FALSE
    /\ current_observation = None
    /\ ret = NoOutcome
    /\ nWrites = 0
    /\ nReads = 0
    /\ lastWritten = <<>>
    /\ terminalSeen = FALSE
    /\ resetSucceeded = FALSE
    /\ liveEngines = 0
    /\ nCalls = 0
    /\ awaitingReply = FALSE
    /\ lastReceived = <<>>

ActionIdle == actA = 0 /\ actB = 0 /\ codeA = <<>> /\ codeB = <<>>

\* PokerGame.__init__ does not create last_message
LegalIdle == last_message = <<>> /\ legal = <<>>

\* nothing has been received, converted or shown yet
PureIdle ==
    /\ previous = <<>>
    /\ cardA = <<>> /\ cardB = <<>> /\ idxA = -1 /\ idxB = -1
    /\ strA = <<>>

\* a socket with a connection about to return one of the lines, or a socket
\* that was never connected
InitCodec ==
    /\ phase = "line"
    /\ \/ socketfile = "open" /\ line \in ReadOutcomes
       \/ socketfile = "None" /\ line = ReadRaises
    /\ parsed = None
    /\ encoded = [raised |-> FALSE, error |-> "", obs |-> None]
    /\ ActionIdle
    /\ LegalIdle
    /\ PureIdle
    /\ AdapterInit

ReceiveMessage ==
    /\ phase = "line"
    /\ parsed' = receive_message(socketfile, line)
    /\ phase' = "parsed"
    /\ UNCHANGED <<socketfile, line, encoded>>
    /\ UNCHANGED actionVars
    /\ UNCHANGED adapterVars
    /\ UNCHANGED legalVars
    /\ UNCHANGED <<previous, strA>>
    /\ UNCHANGED cardVars

EncodeObservation ==
    /\ phase = "parsed"
    /\ encoded' = encode_observation(parsed)
    /\ phase' = "encoded"
    /\ UNCHANGED <<socketfile, line, parsed>>
    /\ UNCHANGED actionVars
    /\ UNCHANGED adapterVars
    /\ UNCHANGED legalVars
    /\ UNCHANGED <<previous, strA>>
    /\ UNCHANGED cardVars

NextCodec == ReceiveMessage \/ EncodeObservation

SpecCodec == InitCodec /\ [][NextCodec]_vars

----------------------------------------------------------------------------
(* Stream harness: receive_message called again and again on one connection *)

\* lines the engine sends one after the other
StreamClauses ==
    { <<<<"T", "6", "0", "0", ".", "0">>, <<"P", "0">>, <<"H", "2", "s", ",", "3", "h">>>>,
      <<<<"K">>, <<"R", "1", "0">>>>,
      <<<<"F">>>>,
      <<<<"C">>>>,
      <<<<"D", "2">>, <<"Q">>>>,
      <<<<"B", "9", "h", ",", "T", "d", ",", "J", "c">>, <<"O", "2", "c", ",", "2", "d">>,
        <<"Y", "1", "0">>>>,
      <<<<"X">>>>,
      <<>> }

StreamOutcomes ==
    {ReadLine(Join(t) \o <<"\n">>) : t \in StreamClauses} \cup {ReadRaises}

InitStream ==
    /\ phase = "stream"
    /\ socketfile = "open"
    /\ line = ReadRaises /\ parsed = None
    /\ encoded = [raised |-> FALSE, error |-> "", obs |-> None]
    /\ ActionIdle
    /\ LegalIdle
    /\ PureIdle
    /\ AdapterInit

\* one more receive_message() call on the connection
ReceiveNext ==
    /\ phase = "stream"
    /\ nReads < MaxReads
    /\ \E rd \in StreamOutcomes :
        /\ line' = rd
        /\ parsed' = receive_message(socketfile, rd)
    /\ previous' = parsed
    /\ nReads' = nReads + 1
    /\ UNCHANGED <<phase, socketfile, encoded, strA>>
    /\ UNCHANGED <<socket_connection, is_connected_flag, engine_process, game_over,
                   current_observation, ret, nWrites, lastWritten, terminalSeen,
                   resetSucceeded, liveEngines, nCalls, awaitingReply, lastReceived>>
    /\ UNCHANGED actionVars
    /\ UNCHANGED legalVars
    /\ UNCHANGED cardVars

NextStream == ReceiveNext

SpecStream == InitStream /\ [][NextStream]_vars

----------------------------------------------------------------------------
(* Card harness: _card_to_index on drawn pairs of card strings *)

\* the 52 card tokens
ValidTokens == {<<Ranks[r], Suits[u]>> : r \in 1..Len(Ranks), u \in 1..Len(Suits)}

\* characters of the other strings: a rank, a suit, a lower-case rank, and a
\* character that is neither
CardAlphabet == {"A", "s", "a", "x"}

\* strings of at most n characters
RECURSIVE CardStringsUpTo(_)
CardStringsUpTo(n) ==
    IF n = 0 THEN {<<>>}
    ELSE CardStringsUpTo(n - 1) \cup
         {Append(w, c) : w \in {u \in CardStringsUpTo(n - 1) : Len(u) = n - 1},
                         c \in CardAlphabet}

CardStrings == ValidTokens \cup CardStringsUpTo(MaxCardLen)

InitCard ==
    /\ phase = "card"
    /\ cardA \in CardStrings
    /\ cardB \in CardStrings
    /\ idxA = -1 /\ idxB = -1
    /\ previous = <<>> /\ strA = <<>>
    /\ socketfile = "None"
    /\ line = ReadRaises /\ parsed = None
    /\ encoded = [raised |-> FALSE, error |-> "", obs |-> None]
    /\ ActionIdle
    /\ LegalIdle
    /\ AdapterInit

CardToIndex ==
    /\ phase = "card"
    /\ idxA' = card_to_index(cardA)
    /\ idxB' = card_to_index(cardB)
    /\ phase' = "indexed"
    /\ UNCHANGED <<cardA, cardB, socketfile, line, parsed, encoded, previous, strA>>
    /\ UNCHANGED actionVars
    /\ UNCHANGED legalVars
    /\ UNCHANGED adapterVars

NextCard == CardToIndex

SpecCard == InitCard /\ [][NextCard]_vars

----------------------------------------------------------------------------
(* Action harness: _action_to_poker_code on drawn pairs of indices *)

ActionInputs == (0 - ActionMargin)..(action_space_size - 1 + ActionMargin)

SocketIdle == socketfile = "None"

InitAction ==
    /\ phase = "act"
    /\ actA \in ActionInputs
    /\ actB \in ActionInputs
    /\ codeA = <<>>
    /\ codeB = <<>>
    /\ SocketIdle
    /\ line = ReadRaises /\ parsed = None
    /\ encoded = [raised |-> FALSE, error |-> "", obs |-> None]
    /\ LegalIdle
    /\ PureIdle
    /\ AdapterInit

DecodeAction ==
    /\ phase = "act"
    /\ codeA' = action_to_poker_code(actA)
    /\ codeB' = action_to_poker_code(actB)
    /\ phase' = "decoded"
    /\ UNCHANGED <<actA, actB, socketfile, line, parsed, encoded>>
    /\ UNCHANGED adapterVars
    /\ UNCHANGED legalVars
    /\ UNCHANGED <<previous, strA>>
    /\ UNCHANGED cardVars

\* action_to_string on the first index
ShowAction ==
    /\ phase = "decoded"
    /\ strA' = action_to_string(actA)
    /\ phase' = "shown"
    /\ UNCHANGED <<actA, actB, codeA, codeB, socketfile, line, parsed, encoded, previous>>
    /\ UNCHANGED adapterVars
    /\ UNCHANGED legalVars
    /\ UNCHANGED cardVars

NextAction == DecodeAction \/ ShowAction

SpecAction == InitAction /\ [][NextAction]_vars

\* the chip amount of a raise code R<n>
RaiseAmount(code) == ParseInt(Rest(code))[1]
IsRaise(code) == StartsWith(code, "R") /\ ParseInt(Rest(code)) # None

----------------------------------------------------------------------------
(* Legal-action harness: legal_actions on drawn values of last_message *)

\* action-history tokens a message can carry
HistoryTokens ==
    {<<"F">>, <<"C">>, <<"K">>, <<"R", "1", "0">>, <<"R", "a", "b", "c">>}

\* histories of at most n tokens
RECURSIVE Histories(_)
Histories(n) ==
    IF n = 0 THEN {<<>>}
    ELSE Histories(n - 1) \cup
         {Append(h, t) : h \in {u \in Histories(n - 1) : Len(u) = n - 1},
                         t \in HistoryTokens}

\* values of last_message: unset, or a message dict
LastMessages ==
    {None} \cup
    {Some([DefaultMessage EXCEPT !.action_history = h, !.game_over = over]) :
        h \in Histories(MaxHistory), over \in BOOLEAN}

InitLegal ==
    /\ phase = "legal_in"
    /\ last_message \in LastMessages
    /\ legal = <<>>
    /\ PureIdle
    /\ SocketIdle
    /\ line = ReadRaises /\ parsed = None
    /\ encoded = [raised |-> FALSE, error |-> "", obs |-> None]
    /\ ActionIdle
    /\ AdapterInit

LegalActions ==
    /\ phase = "legal_in"
    /\ legal' = legal_actions(last_message)
    /\ phase' = "legal_out"
    /\ UNCHANGED <<last_message, socketfile, line, parsed, encoded>>
    /\ UNCHANGED <<previous, strA>>
    /\ UNCHANGED cardVars
    /\ UNCHANGED actionVars
    /\ UNCHANGED adapterVars

NextLegal == LegalActions

SpecLegal == InitLegal /\ [][NextLegal]_vars

----------------------------------------------------------------------------
(* The adapter: one PokerGame with its PokerSocket, driven by a training   *)
(* loop that calls connect, reset, step and close                          *)

\* lines the engine answers with
ReplyClauses ==
    { <<<<"T", "6", "0", "0", ".", "0">>, <<"P", "0">>, <<"H", "2", "s", ",", "3", "h">>>>,
      <<<<"D", "2">>, <<"Q">>>>,
      <<<<"D", "2">>, <<"Y", "1", "0">>, <<"Q">>>>,
      <<<<"D", "-", "5", "0">>, <<"Y", "1", "0">>>>,
      <<<<"D", "0">>, <<"Y", "0", "0">>>>,
      <<<<"Y", "0", "1">>>>,
      <<<<"R", "1", "0">>, <<"Y", "0", "0">>>>,
      <<<<"T", "x">>, <<"Y", "0", "0">>>>,
      <<>> }

ReplyOutcomes ==
    {ReadLine(Join(t) \o <<"\n">>) : t \in ReplyClauses}
        \cup {ReadLine(<<>>), ReadRaises}

\* action indices the training loop passes to step
StepActions == {0, 3, 999}

\* the adapter is Idle: no reset has succeeded and the game is not over
Idle == ~resetSucceeded /\ ~game_over

\* mutant: poker_game.py imports time, so reset goes on past time.sleep(1)
TimeImportedPresent == TRUE

\* `import time` is missing from poker_game.py, so time.sleep(1) in reset
\* raises NameError
TimeImported == FALSE

Init ==
    /\ phase = "idle"
    /\ SocketIdle
    /\ line = ReadRaises /\ parsed = None
    /\ encoded = [raised |-> FALSE, error |-> "", obs |-> None]
    /\ ActionIdle
    /\ LegalIdle
    /\ PureIdle
    /\ AdapterInit

\* PokerSocket.close(); waitOk says whether the terminated process exits
\* within the 5 s of wait(timeout=5).  [socketfile, socket_connection,
\* is_connected_flag, engine_process, liveEngines, raised]
socket_close(sf, conn, flag, proc, live, waitOk) ==
    [socketfile        |-> IF sf = "None" THEN "None" ELSE "closed",
     socket_connection |-> IF conn = "None" THEN "None" ELSE "closed",
     engine_process    |-> IF proc = "running" /\ waitOk THEN "terminated" ELSE proc,
     liveEngines       |-> IF proc = "running" /\ waitOk THEN live - 1 ELSE live,
     is_connected_flag |-> IF proc = "running" /\ ~waitOk THEN flag ELSE FALSE,
     raised            |-> proc = "running" /\ ~waitOk]

\* PokerSocket.connect(port), called on game.poker_socket
Connect ==
    /\ nCalls < MaxCalls
    /\ \E ok \in BOOLEAN :
        /\ socket_connection' = IF ok THEN "open" ELSE "unconnected"
        /\ socketfile' = IF ok THEN "open" ELSE socketfile
        /\ is_connected_flag' = IF ok THEN TRUE ELSE is_connected_flag
        /\ ret' = Outcome("connect", "return", "", None, Zero, ok, FALSE, None, Idle)
    /\ nCalls' = nCalls + 1
    /\ UNCHANGED <<engine_process, game_over, current_observation, nWrites, nReads,
                   lastWritten, terminalSeen, resetSucceeded, liveEngines,
                   awaitingReply, lastReceived>>
    /\ UNCHANGED codecVars
    /\ UNCHANGED actionVars
    /\ UNCHANGED legalVars
    /\ UNCHANGED <<previous, strA>>
    /\ UNCHANGED cardVars

\* PokerGame.close()
Close ==
    /\ nCalls < MaxCalls
    /\ \E waitOk \in BOOLEAN :
        LET c == socket_close(socketfile, socket_connection, is_connected_flag,
                              engine_process, liveEngines, waitOk)
        IN  /\ socketfile' = c.socketfile
            /\ socket_connection' = c.socket_connection
            /\ is_connected_flag' = c.is_connected_flag
            /\ engine_process' = c.engine_process
            /\ liveEngines' = c.liveEngines
            /\ ret' = Outcome("close", IF c.raised THEN "raise" ELSE "return",
                              IF c.raised THEN "TimeoutExpired" ELSE "",
                              None, Zero, FALSE, FALSE, None, Idle)
    /\ nCalls' = nCalls + 1
    /\ UNCHANGED <<game_over, current_observation, nWrites, nReads, lastWritten,
                   terminalSeen, resetSucceeded, awaitingReply, lastReceived>>
    /\ UNCHANGED codecVars
    /\ UNCHANGED actionVars
    /\ UNCHANGED legalVars
    /\ UNCHANGED <<previous, strA>>
    /\ UNCHANGED cardVars

\* PokerGame.step(action)
Step ==
    /\ nCalls < MaxCalls
    /\ \E action \in StepActions, wr \in BOOLEAN, rd \in ReplyOutcomes :
        \* nothing is read after a failed write: one read outcome stands for all
        /\ wr \/ rd = ReadRaises
        /\ LET r == step(game_over, current_observation, socketfile, action, wr, rd)
           IN  /\ game_over' = r.game_over
               /\ current_observation' = r.current_observation
               /\ ret' = Outcome("step", r.kind, r.error, r.obs, r.reward, r.done,
                                 r.sent, r.msg, Idle)
               /\ nWrites' = IF r.wrote THEN nWrites + 1 ELSE nWrites
               /\ nReads' = IF r.read THEN nReads + 1 ELSE nReads
               /\ lastWritten' = IF r.wrote THEN r.text ELSE lastWritten
               /\ awaitingReply' = IF r.read THEN FALSE
                                    ELSE IF r.wrote THEN TRUE ELSE awaitingReply
               /\ terminalSeen' = (terminalSeen \/ (r.kind = "return" /\ r.done))
               /\ lastReceived' = IF r.kind = "return" /\ r.msg # None
                                   THEN r.msg ELSE lastReceived
    /\ nCalls' = nCalls + 1
    /\ UNCHANGED <<socketfile, socket_connection, is_connected_flag, engine_process,
                   resetSucceeded, liveEngines>>
    /\ UNCHANGED codecVars
    /\ UNCHANGED actionVars
    /\ UNCHANGED legalVars
    /\ UNCHANGED <<previous, strA>>
    /\ UNCHANGED cardVars


\* PokerSocket.start_engine(): se is what launching does: "config_error" (the
\* config file cannot be written or Popen fails: caught, False), "started"
\* (the process is alive after 2 s: True) or "died" (it exited: False).
\* [ok, engine_process, liveEngines]
start_engine(proc, live, se) ==
    IF se = "started" THEN [ok |-> TRUE, engine_process |-> "running", liveEngines |-> live + 1]
    ELSE IF se = "died" THEN [ok |-> FALSE, engine_process |-> "exited", liveEngines |-> live]
    ELSE [ok |-> FALSE, engine_process |-> proc, liveEngines |-> live]

StartOutcomes == {"config_error", "started", "died"}

\* PokerGame.reset() on the adapter and socket fields; waitOk, se and rd are
\* what the process wait, the launch and readline() do.
reset(over, cur, sf, conn, flag, proc, live, waitOk, se, rd) ==
    LET c == IF is_connected(flag, conn)
             THEN socket_close(sf, conn, flag, proc, live, waitOk)
             ELSE [socketfile |-> sf, socket_connection |-> conn,
                   engine_process |-> proc, liveEngines |-> live,
                   is_connected_flag |-> flag, raised |-> FALSE]
        e == start_engine(c.engine_process, c.liveEngines, se)
        started == [c EXCEPT !.engine_process = e.engine_process,
                             !.liveEngines = e.liveEngines]
        message == receive_message(c.socketfile, rd)
        enc == encode_observation(message)
        keep == [game_over |-> over, current_observation |-> cur, obs |-> None,
                 read |-> FALSE, succeeded |-> FALSE, msg |-> None]
    IN  IF c.raised THEN
            c @@ keep @@ [kind |-> "raise", error |-> "TimeoutExpired"]
        ELSE IF ~e.ok THEN
            started @@ keep @@ [kind |-> "raise", error |-> "RuntimeError"]
        ELSE IF ~TimeImported THEN
            started @@ keep @@ [kind |-> "raise", error |-> "NameError"]
        ELSE IF enc.raised THEN
            started @@ [keep EXCEPT !.read = ReadAttempted(c.socketfile),
                                    !.msg = message]
                    @@ [kind |-> "raise", error |-> enc.error]
        ELSE
            started @@ [game_over |-> FALSE, current_observation |-> enc.obs,
                        obs |-> enc.obs, read |-> ReadAttempted(c.socketfile),
                        succeeded |-> TRUE, msg |-> message,
                        kind |-> "return", error |-> ""]

\* PokerGame.reset()
Reset ==
    /\ nCalls < MaxCalls
    /\ \E waitOk \in BOOLEAN, se \in StartOutcomes, rd \in ReplyOutcomes :
        \* nothing is read unless the engine started and time.sleep returned
        /\ (TimeImported /\ se = "started") \/ rd = ReadRaises
        /\ LET r == reset(game_over, current_observation, socketfile, socket_connection,
                       is_connected_flag, engine_process, liveEngines, waitOk, se, rd)
           IN  /\ socketfile' = r.socketfile
               /\ socket_connection' = r.socket_connection
               /\ is_connected_flag' = r.is_connected_flag
               /\ engine_process' = r.engine_process
               /\ liveEngines' = r.liveEngines
               /\ game_over' = r.game_over
               /\ current_observation' = r.current_observation
               /\ nReads' = IF r.read THEN nReads + 1 ELSE nReads
               /\ awaitingReply' = IF r.read THEN FALSE ELSE awaitingReply
               /\ resetSucceeded' = (resetSucceeded \/ r.succeeded)
               /\ terminalSeen' = (terminalSeen /\ ~r.succeeded)
               /\ lastReceived' = IF r.succeeded /\ r.msg # None
                                   THEN r.msg ELSE lastReceived
               /\ ret' = Outcome("reset", r.kind, r.error, r.obs, Zero, FALSE, FALSE,
                                 r.msg, Idle)
    /\ nCalls' = nCalls + 1
    /\ UNCHANGED <<nWrites, lastWritten>>
    /\ UNCHANGED codecVars
    /\ UNCHANGED actionVars
    /\ UNCHANGED legalVars
    /\ UNCHANGED <<previous, strA>>
    /\ UNCHANGED cardVars

\* PokerGame.legal_actions() called on the adapter; nothing in PokerGame
\* assigns last_message, so the attribute is what it was
LegalActionsCall ==
    /\ nCalls < MaxCalls
    /\ legal' = legal_actions(last_message)
    /\ ret' = Outcome("legal_actions", "return", "", None, Zero, FALSE, FALSE, None, Idle)
    /\ nCalls' = nCalls + 1
    /\ UNCHANGED <<socketfile, socket_connection, is_connected_flag, engine_process,
                   game_over, current_observation, nWrites, nReads, lastWritten,
                   terminalSeen, resetSucceeded, liveEngines, awaitingReply,
                   lastReceived, last_message>>
    /\ UNCHANGED codecVars
    /\ UNCHANGED actionVars
    /\ UNCHANGED <<previous, strA>>
    /\ UNCHANGED cardVars

Next == Connect \/ Reset \/ Step \/ Close \/ LegalActionsCall

Spec == Init /\ [][Next]_vars

----------------------------------------------------------------------------
(* Properties of receive_message and _encode_observation (SpecCodec) *)

\* the clauses of the line that was read, as the parser sees them
LineClauses == Split(Strip(line.text), " ")
HasClause(c) == \E k \in 1..Len(LineClauses) : LineClauses[k] = c
LineRead == phase # "line" /\ socketfile = "open" /\ line.ok
NonEmptyLine == LineRead /\ Strip(line.text) # <<>>

\* C1: for every line that is non-empty after stripping, receive_message
\* returns a message; a clause whose numeric payload does not parse is skipped
\* and the other clauses of the line still set their fields (here: a P1 clause
\* sets player_index to 1, a Q clause sets game_over).
C1_MalformedClauseSkipped ==
    NonEmptyLine =>
        /\ parsed # None
        /\ (HasClause(<<"P", "1">>) /\ ~HasClause(<<"P", "x">>)) =>
               parsed[1].player_index = Some(1)
        /\ HasClause(<<"Q">>) => parsed[1].game_over

\* clauses that carry no recognised tag
UntaggedClauses == {<<>>, <<"X">>, <<"F", "O", "R", "M", "A", "T">>}

\* C2: for every line that is empty after stripping, and when no connection
\* exists, receive_message returns None; a non-empty line with no recognised
\* clause returns the all-defaults message, which is not None.
C2_EmptyLineNoMessage ==
    phase # "line" =>
        /\ socketfile = "None" => parsed = None
        /\ (LineRead /\ Strip(line.text) = <<>>) => parsed = None
        /\ (NonEmptyLine /\ \A k \in 1..Len(LineClauses) : LineClauses[k] \in UntaggedClauses)
               => (parsed = Some(DefaultMessage) /\ parsed # None)

\* C2 witness: a line of spaces and a newline was read and gave no message
C2_Witness ==
    /\ phase = "parsed" /\ socketfile = "open" /\ line.ok
    /\ Len(line.text) >= 2
    /\ Strip(line.text) = <<>>
    /\ parsed = None

\* C3: for every message receive_message can return, _encode_observation
\* returns a vector of length 250 and never raises.
C3_EncodeTotal ==
    (phase = "encoded" /\ parsed # None) =>
        /\ ~encoded.raised
        /\ encoded.obs # None
        /\ DOMAIN encoded.obs[1] = 0..249

\* the entries the claim bounds by [0,1]: time, player index, hand features,
\* pot and aggression
UnitEntries == {0, 1, 114, 115, 116, 124, 125}

\* C4: every element of the vector _encode_observation returns lies in
\* [-1,1]; the time, player-index, hand-feature, pot and aggression entries lie
\* in [0,1] and the bankroll-delta entry (182) lies in [-1,1].
C4_Bounded ==
    (phase = "encoded" /\ ~encoded.raised /\ encoded.obs # None) =>
        \A i \in DOMAIN encoded.obs[1] :
            /\ RatLe(MinusOne, encoded.obs[1][i])
            /\ RatLe(encoded.obs[1][i], One)
            /\ i \in UnitEntries => RatLe(Zero, encoded.obs[1][i])

\* the clause is an action token: a bare F, C or K, or R and an integer
IsActionToken(c) == c \in {<<"F">>, <<"C">>, <<"K">>} \/ IsRaise(c)

\* C18: in the message parsed from a line, action_history is exactly the
\* subsequence, in order, of the line's clauses that are a bare F, C or K or
\* R followed by an integer; Rabc is not appended.
C18_HistoryExact ==
    (NonEmptyLine /\ parsed # None) =>
        parsed[1].action_history = SelectSeq(LineClauses, IsActionToken)

\* the last clause of the line that starts with the tag, None if there is none
LastClauseWith(tag) ==
    LET ks == {k \in 1..Len(LineClauses) : StartsWith(LineClauses[k], tag)}
    IN  IF ks = {} THEN None
        ELSE Some(LineClauses[CHOOSE k \in ks : \A j \in ks : j <= k])

\* the card tokens of the last clause with the tag, [] if there is none
LastCards(tag) ==
    IF LastClauseWith(tag) = None THEN <<>> ELSE CardList(LastClauseWith(tag)[1])

BActs == <<"B", "A", "c", "t", "s">>

\* positions of the B clauses that list cards
BoardClauses ==
    {k \in 1..Len(LineClauses) :
        StartsWith(LineClauses[k], "B") /\ LineClauses[k] # BActs}

\* C20: when a B clause of card tokens is followed later in the line by the
\* clause BActs, board_cards is the card tokens of the (last) card clause; the
\* BActs clause does not replace them.
C20_BActsKeepsBoard ==
    (/\ NonEmptyLine /\ parsed # None
     /\ \E j \in BoardClauses : \E k \in (j + 1)..Len(LineClauses) :
            LineClauses[k] = BActs) =>
        parsed[1].board_cards =
            CardList(LineClauses[CHOOSE j \in BoardClauses : \A i \in BoardClauses : i <= j])

----------------------------------------------------------------------------
(* Properties of _action_to_poker_code (SpecAction) *)

\* C5: _action_to_poker_code is total: 0 gives F, 1 gives C, 2 gives K, 3
\* gives R2, 102 gives R400, and every index outside [0,103) gives K.
C5_DecodeTotal ==
    phase = "decoded" =>
        /\ codeA \in {<<"F">>, <<"C">>, <<"K">>} \/ IsRaise(codeA)
        /\ actA = 0 => codeA = <<"F">>
        /\ actA = 1 => codeA = <<"C">>
        /\ actA = 2 => codeA = <<"K">>
        /\ actA = 3 => codeA = <<"R", "2">>
        /\ actA = 102 => codeA = <<"R", "4", "0", "0">>
        /\ (actA < 0 \/ actA >= 103) => codeA = <<"K">>

\* C5 witness: the maximum raise and a negative index have both been decoded
C5_Witness ==
    /\ phase = "decoded"
    /\ actA = 102 /\ codeA = <<"R", "4", "0", "0">>
    /\ actB < 0 /\ codeB = <<"K">>

\* C6: over the raise indices [3,103) the chip amount is non-decreasing in the
\* index, and every amount lies in [2,400].
C6_RaiseMonotone ==
    (phase = "decoded" /\ 3 <= actA /\ actA < actB /\ actB <= 102) =>
        /\ IsRaise(codeA) /\ IsRaise(codeB)
        /\ RaiseAmount(codeA) <= RaiseAmount(codeB)
        /\ 2 <= RaiseAmount(codeA) /\ RaiseAmount(codeB) <= 400

----------------------------------------------------------------------------
(* Properties of step (Spec) *)

\* the transition is a call of step
StepTaken == nCalls' = nCalls + 1 /\ ret'.op = "step"

\* C7: once step has returned done=true, every further step before the next
\* successful reset returns the same last observation with reward 0.0 and
\* done=true, and neither writes to the engine nor reads from it.
C7_TerminalShortCircuit ==
    [][ /\ (terminalSeen /\ StepTaken) =>
            /\ ret'.kind = "return"
            /\ ret'.obs = current_observation
            /\ ret'.reward = Zero
            /\ ret'.done
            /\ nWrites' = nWrites /\ nReads' = nReads
            /\ lastWritten' = lastWritten
        /\ (terminalSeen /\ terminalSeen') =>
            current_observation' = current_observation
        /\ (StepTaken /\ ret'.kind = "return") => ret'.obs = current_observation'
      ]_vars

\* C7 witness: a step returned done=true on a received message, and the next
\* step was answered without touching the connection
C7_Witness ==
    /\ terminalSeen /\ socketfile = "open"
    /\ ret.op = "step" /\ ret.kind = "return"
    /\ ret.done /\ ret.reward = Zero
    /\ ~ret.sent /\ ret.msg = None
    /\ current_observation # None /\ ret.obs = current_observation
    /\ nWrites = 1 /\ nReads = 1

\* C8 as claimed: step called while the adapter is Idle is signalled as an
\* error and returns no ordinary result.
C8_IdleStepIsError ==
    (ret.op = "step" /\ ret.wasIdle) => ret.kind = "raise"

\* C8 as amended: step called while the adapter is Idle with no open
\* connection is not signalled as an error; it returns the ordinary result
\* (current observation, -1.0, done=true) and makes the adapter Terminal.
C8_IdleStepOrdinary ==
    (ret.op = "step" /\ ret.wasIdle /\ socketfile # "open") =>
        /\ ret.kind = "return"
        /\ RatEq(ret.reward, MinusOne)
        /\ ret.done
        /\ game_over
        /\ ret.obs = current_observation

\* C8 witness: step was called on a freshly constructed adapter
C8_Witness ==
    /\ ret.op = "step" /\ ret.wasIdle /\ ~resetSucceeded
    /\ socketfile = "None" /\ nCalls = 1
    /\ ret.kind = "return" /\ ret.done

\* C9: if step's send fails, or the send succeeds but no message is received,
\* step returns reward -1.0 and done=true, makes the adapter Terminal and
\* returns the previous current observation unchanged.
C9_CommFailurePenalty ==
    [][ (~game_over /\ StepTaken /\ (~ret'.sent \/ ret'.msg = None)) =>
            /\ ret'.kind = "return"
            /\ RatEq(ret'.reward, MinusOne)
            /\ ret'.done
            /\ game_over'
            /\ ret'.obs = current_observation
            /\ current_observation' = current_observation
      ]_vars

\* C9 witness: the action was written, the read gave no message, and the step
\* ended the game with the penalty
C9_Witness ==
    /\ ret.op = "step" /\ ret.sent /\ ret.msg = None
    /\ nWrites = 1 /\ nReads = 1
    /\ RatEq(ret.reward, MinusOne) /\ ret.done /\ game_over

----------------------------------------------------------------------------
(* Properties of the traffic with the engine (Spec) *)

\* C11: over any sequence of calls, every call writes at most one action line
\* and attempts at most one read; only step writes; a step attempts its read
\* only after its own write succeeded, reads nothing after a failed write, and
\* no action line is written while an earlier one still has had no read
\* attempt after it.
C11_StrictAlternation ==
    [][ /\ nWrites' \in {nWrites, nWrites + 1}
        /\ nReads' \in {nReads, nReads + 1}
        /\ nWrites' > nWrites => (StepTaken /\ ~awaitingReply)
        /\ (StepTaken /\ nReads' > nReads) => (nWrites' > nWrites /\ ret'.sent)
        /\ (StepTaken /\ ~ret'.sent) => nReads' = nReads
      ]_vars

\* C11 witness: two steps in a row each wrote one line and read one reply
C11_Witness ==
    /\ ret.op = "step" /\ ret.sent /\ ret.msg # None
    /\ nWrites = 2 /\ nReads = 2 /\ ~awaitingReply

----------------------------------------------------------------------------
(* Properties of reset (Spec) *)

\* the last call was a reset whose engine process started: neither the close
\* of the old connection nor start_engine failed
ResetStarted ==
    /\ ret.op = "reset" /\ engine_process = "running"
    /\ ret.error \notin {"TimeoutExpired", "RuntimeError"}

\* the message of the scripted reply "D2 Q"
ScriptedReply == ParseLine(Join(<<<<"D", "2">>, <<"Q">>>>) \o <<"\n">>)

\* C12: against an engine that starts and sends "T600.0 P0 H2s,3h", reset
\* returns the initial observation and leaves the game running; a step(0) whose
\* action line F reached the engine and was answered by "D2 Q" returns reward
\* 2/400 and done=true.
C12_EndToEnd ==
    /\ ResetStarted =>
           (ret.kind = "return" /\ ret.obs # None /\ ~game_over)
    /\ (ret.op = "step" /\ ret.sent /\ lastWritten = <<"F", "\n">>
            /\ ret.msg = ScriptedReply) =>
           /\ ret.kind = "return"
           /\ RatEq(ret.reward, Rat(2, StartingStack))
           /\ ret.done /\ game_over

\* the adapter is InHand: the game is not over and the last reset returned an
\* initial observation
InHandAfterReset ==
    ret.op = "reset" /\ ret.kind = "return" /\ ret.obs # None /\ ~game_over

----------------------------------------------------------------------------
(* Properties of close (Spec) *)

\* the transition is a call of close
CloseTaken == nCalls' = nCalls + 1 /\ ret'.op = "close"

\* C14: close completes without error in every adapter state; after it the
\* connection is released (is_connected() is false) and the engine process is
\* not running; a close that follows a close changes nothing.
C14_CloseIdempotent ==
    [][ CloseTaken =>
            /\ ret'.kind = "return"
            /\ ~is_connected(is_connected_flag', socket_connection')
            /\ socketfile' # "open"
            /\ engine_process' # "running"
            /\ ret.op = "close" =>
                   <<socketfile', socket_connection', is_connected_flag',
                     engine_process', liveEngines', game_over',
                     current_observation'>>
                   = <<socketfile, socket_connection, is_connected_flag,
                       engine_process, liveEngines, game_over,
                       current_observation>>
      ]_vars

----------------------------------------------------------------------------
(* Properties of legal_actions (SpecLegal) *)

\* the indices a list holds
Elems(seq) == {seq[k] : k \in DOMAIN seq}

\* legal_actions has answered with a state message known
LegalWithMessage == phase = "legal_out" /\ last_message # None

\* the most recent action-history token of the known message, None if empty
LastToken ==
    IF last_message[1].action_history # <<>>
    THEN Some(last_message[1].action_history[Len(last_message[1].action_history)])
    ELSE None

\* C15: with a state message known, legal_actions includes call (1) and
\* excludes check (2) if the last history token is a raise, includes check and
\* excludes call if the history is empty or ends with F, C or K, and includes
\* every raise index 3..102 in both cases.
C15_CheckOrCall ==
    LegalWithMessage =>
        /\ (LastToken # None /\ IsRaise(LastToken[1])) =>
               (1 \in Elems(legal) /\ 2 \notin Elems(legal))
        /\ (LastToken = None \/ LastToken \in {<<<<"F">>>>, <<<<"C">>>>, <<<<"K">>>>}) =>
               (2 \in Elems(legal) /\ 1 \notin Elems(legal))
        /\ \A i \in 3..102 : i \in Elems(legal)

\* C15 witness: the history ends with a raise after a call, and call is
\* offered while check is not
C15_Witness ==
    /\ LegalWithMessage
    /\ Len(last_message[1].action_history) >= 2
    /\ LastToken = <<<<"R", "1", "0">>>>
    /\ 1 \in Elems(legal) /\ 2 \notin Elems(legal) /\ 102 \in Elems(legal)

\* C16: with a state message known, fold (0) is in the list legal_actions
\* returns if and only if the message's game_over flag is false.
C16_FoldUnlessOver ==
    LegalWithMessage => ((0 \in Elems(legal)) <=> ~last_message[1].game_over)

\* C16 witness: the hand is over and the list, not empty, has no fold
C16_Witness ==
    /\ LegalWithMessage /\ last_message[1].game_over
    /\ legal # <<>> /\ 0 \notin Elems(legal)

\* C17: with no state message known, legal_actions returns every index of
\* [0,103) exactly once, in increasing order.
C17_AllLegalWhenUnknown ==
    (phase = "legal_out" /\ last_message = None) =>
        /\ Len(legal) = 103
        /\ \A k \in 1..Len(legal) : legal[k] = k - 1

\* C17 witness: a freshly constructed adapter was asked and answered with 103
\* indices
C17_Witness ==
    /\ phase = "legal_out" /\ last_message = None
    /\ nCalls = 0 /\ ~resetSucceeded /\ current_observation = None
    /\ Len(legal) = 103 /\ legal[1] = 0 /\ legal[103] = 102

----------------------------------------------------------------------------
(* Properties of successive receive_message calls (SpecStream) *)

\* the clause is one receive_message appends to action_history
IsHistoryClause(c) == c \in {<<"F">>, <<"C">>, <<"K">>} \/ StartsWith(c, "R")

\* C21: over any sequence of receive_message calls the message returned for a
\* line holds only what that line says: action_history is the line's own
\* tokens, and every field whose tag the line does not carry has its default,
\* whatever the lines before it set.
C21_OneLineOnly ==
    (phase = "stream" /\ nReads > 0 /\ line.ok /\ parsed # None) =>
        /\ parsed[1].action_history = SelectSeq(LineClauses, IsHistoryClause)
        /\ LastClauseWith("T") = None => parsed[1].time_remaining = None
        /\ LastClauseWith("P") = None => parsed[1].player_index = None
        /\ LastClauseWith("H") = None => parsed[1].hole_cards = <<>>
        /\ LastClauseWith("B") = None => parsed[1].board_cards = <<>>
        /\ LastClauseWith("O") = None => parsed[1].opponent_hand = <<>>
        /\ LastClauseWith("D") = None => parsed[1].bankroll_delta = None
        /\ LastClauseWith("Y") = None => parsed[1].bounty_hits = None
        /\ ~HasClause(<<"Q">>) => ~parsed[1].game_over

\* C21 witness: a line with action tokens and a line ending the game were
\* received, and the message of the line X after them is all defaults
C21_Witness ==
    /\ phase = "stream" /\ nReads >= 2
    /\ previous # None
    /\ (previous[1].action_history # <<>> \/ previous[1].game_over)
    /\ line.ok /\ LineClauses = <<<<"X">>>>
    /\ parsed # None /\ parsed[1].action_history = <<>> /\ ~parsed[1].game_over

----------------------------------------------------------------------------
(* Properties of _card_to_index (SpecCard) *)

\* C22: each of the 52 card tokens (rank r of 23456789TJQKA, suit u of shdc)
\* gets the index r*4 + u in 0..51, two different tokens get different
\* indices, and every other string gets -1.
C22_CardIndexBijection ==
    phase = "indexed" =>
        /\ cardA \in ValidTokens =>
               /\ idxA \in 0..51
               /\ \E r \in 1..13, u \in 1..4 :
                      /\ cardA = <<Ranks[r], Suits[u]>>
                      /\ idxA = (r - 1) * 4 + (u - 1)
        /\ cardA \notin ValidTokens => idxA = -1
        /\ (cardA \in ValidTokens /\ cardB \in ValidTokens /\ idxA = idxB) =>
               cardA = cardB

\* C22 witness: the ace of clubs got the last index and a one-character
\* string got the sentinel
C22_Witness ==
    /\ phase = "indexed"
    /\ cardA = <<"A", "c">> /\ idxA = 51
    /\ cardB = <<"A">> /\ idxB = -1

----------------------------------------------------------------------------
(* Properties of the street and bounty features (SpecCodec) *)

\* a vector was encoded from a parsed message
Encoded == phase = "encoded" /\ parsed # None /\ ~encoded.raised

\* the entries of the street indicators: preflop, flop, turn, river
StreetEntries == {2, 3, 4, 5}

\* C23: in every encoded vector exactly one of the four street indicators is
\* set, and which one follows from the number of board cards alone: 0 gives
\* preflop, 3 flop, 4 turn, 5 or more river.
C23_StreetOneHot ==
    Encoded =>
        /\ Cardinality({i \in StreetEntries : encoded.obs[1][i] = One}) = 1
        /\ \A i \in StreetEntries : encoded.obs[1][i] \in {Zero, One}
        /\ Len(parsed[1].board_cards) = 0 => encoded.obs[1][2] = One
        /\ Len(parsed[1].board_cards) = 3 => encoded.obs[1][3] = One
        /\ Len(parsed[1].board_cards) = 4 => encoded.obs[1][4] = One
        /\ Len(parsed[1].board_cards) >= 5 => encoded.obs[1][5] = One

\* C24: the two bounty features (entries 190 and 191) are each 0 or 1, and
\* for a message whose bounty_hits is absent or not 2 characters long the
\* encoder raises nothing and both are 0.  (Messages on which the encoder
\* fails before it reaches the bounty block are left out.)
C24_BountyDefaults ==
    (phase = "encoded" /\ parsed # None
        /\ encoded.error \notin {"IndexError", "ValueError"}) =>
        /\ ~encoded.raised
        /\ encoded.obs[1][190] \in {Zero, One}
        /\ encoded.obs[1][191] \in {Zero, One}
        /\ (parsed[1].bounty_hits = None \/ Len(parsed[1].bounty_hits[1]) # 2) =>
               (encoded.obs[1][190] = Zero /\ encoded.obs[1][191] = Zero)

----------------------------------------------------------------------------
(* Properties of legal_actions on the adapter (Spec) *)

\* the last history token of the message most recently received, None if
\* the history is empty
LastReceivedToken ==
    IF lastReceived[1].action_history # <<>>
    THEN Some(lastReceived[1].action_history[Len(lastReceived[1].action_history)])
    ELSE None

\* C25: once a returning reset or step has received a message, legal_actions
\* answers from that message: check (2) is left out when its last history
\* token is a raise, and fold (0) is left out when it ends the game.
C25_LegalFromLastMessage ==
    (ret.op = "legal_actions" /\ lastReceived # None) =>
        /\ (LastReceivedToken # None /\ IsRaise(LastReceivedToken[1])) =>
               2 \notin Elems(legal)
        /\ lastReceived[1].game_over => 0 \notin Elems(legal)

----------------------------------------------------------------------------
(* Properties of the step outcome, the engine process and the connection    *)
(* (Spec)                                                                    *)

\* C26: a step whose send and receive both succeeded returns, with done=true
\* exactly when the received message carries Q, and leaves game_over equal to
\* that flag; after such a step without Q the next step is processed
\* normally: it writes one action line and, if the write succeeds, reads once.
C26_DoneIffQ ==
    [][ /\ (StepTaken /\ ret'.sent /\ ret'.msg # None) =>
            /\ ret'.kind = "return"
            /\ ret'.done <=> ret'.msg[1].game_over
            /\ game_over' <=> ret'.msg[1].game_over
        /\ (/\ ret.op = "step" /\ ret.sent /\ ret.msg # None
            /\ ~ret.msg[1].game_over /\ StepTaken) =>
            /\ nWrites' = nWrites + 1
            /\ ret'.sent => nReads' = nReads + 1
      ]_vars

\* C27: at most one engine process launched by the adapter is alive at any
\* time, and after a close that returned none is.
C27_SingleEngine ==
    /\ liveEngines <= 1
    /\ (ret.op = "close" /\ ret.kind = "return") => liveEngines = 0

\* C28: a reset that got its engine started leaves the adapter with an open
\* connection (is_connected() true, socket file open), so that the first
\* step's send can reach the engine.
C28_ConnectedAfterReset ==
    /\ (ret.op = "reset" /\ ret.kind = "return") =>
           (is_connected(is_connected_flag, socket_connection) /\ socketfile = "open")
    /\ ResetStarted =>
           (is_connected(is_connected_flag, socket_connection) /\ socketfile = "open")

----------------------------------------------------------------------------
(* Properties of action_to_string against _action_to_poker_code            *)
(* (SpecAction)                                                             *)

\* the kind of action a protocol string stands for
CodeKind(code) ==
    IF code = <<"F">> THEN "fold"
    ELSE IF code = <<"C">> THEN "call"
    ELSE IF code = <<"K">> THEN "check"
    ELSE IF IsRaise(code) THEN "raise"
    ELSE "unknown"

\* the kind of action a readable name stands for: its first word
ShownKind(str) ==
    LET word == Split(str, " ")[1]
    IN  IF word = <<"F", "o", "l", "d">> THEN "fold"
        ELSE IF word = <<"C", "a", "l", "l">> THEN "call"
        ELSE IF word = <<"C", "h", "e", "c", "k">> THEN "check"
        ELSE IF word = <<"R", "a", "i", "s", "e">> THEN "raise"
        ELSE "unknown"

\* the chip amount N of "Raise N"
ShownAmount(str) == ParseInt(Split(str, " ")[2])[1]

\* C29: for every index action_to_string and _action_to_poker_code agree on
\* the kind of action, and for every raise index 3..102 the amount shown as
\* "Raise N" is the amount sent to the engine as R<N>.
C29_StringMatchesCode ==
    phase = "shown" =>
        /\ ShownKind(strA) = CodeKind(codeA)
        /\ (3 <= actA /\ actA <= 102) =>
               /\ ShownKind(strA) = "raise"
               /\ ShownAmount(strA) = RaiseAmount(codeA)

----------------------------------------------------------------------------
(* Properties of send_action (Spec) *)

\* the action lines of the indices the training loop passes: F, R2 and K,
\* each with one newline
ActionLines == {<<"F", "\n">>, <<"R", "2", "\n">>, <<"K", "\n">>}

\* C30: a send that succeeds has written exactly the action string followed
\* by a single newline; with no open connection the send fails and nothing is
\* written; a send that fails, for want of a connection or because the write
\* failed, raises nothing: step returns.
C30_SendAction ==
    [][ StepTaken =>
            /\ ret'.sent =>
                   /\ nWrites' = nWrites + 1
                   /\ lastWritten' \in ActionLines
                   /\ Cardinality({k \in 1..Len(lastWritten') : lastWritten'[k] = "\n"}) = 1
            /\ (~game_over /\ socketfile # "open") =>
                   (~ret'.sent /\ nWrites' = nWrites /\ lastWritten' = lastWritten)
            /\ (~game_over /\ ~ret'.sent) => ret'.kind = "return"
      ]_vars

\* C30 witness: a step sent the minimum raise and the line R2 with its
\* newline is what reached the engine
C30_Witness ==
    /\ ret.op = "step" /\ ret.sent
    /\ nWrites = 1
    /\ lastWritten = <<"R", "2", "\n">>

====
